---------------------------- MODULE Spec2Model ----------------------------
(***************************************************************************)
(* A model of the Google-Sheets todo gateway: the write-enabled serverless *)
(* handler (api/todos.js) with its helpers fetchSheetData, rowsToJSON and  *)
(* addToSheet, the remote spreadsheet they talk to, and the read-only      *)
(* handlers (health, index, the write routes of the Express server).       *)
(*                                                                         *)
(* JavaScript strings are sequences of one-character strings, so that      *)
(* split, replace, trim, toLowerCase and parseInt are computed character   *)
(* by character.  JavaScript values are tagged records.                    *)
(***************************************************************************)
EXTENDS Integers, Sequences, FiniteSets, TLC

----------------------------------------------------------------------------
(* JavaScript values *)

JStr(s)  == [t |-> "str", s |-> s]
JNum(n)  == [t |-> "num", n |-> n]
JBool(b) == [t |-> "bool", b |-> b]
NaN      == [t |-> "nan"]
Undef    == [t |-> "undef"]

\* ToBoolean, as used by `if (x)`, `!x` and `x || y`
Truthy(v) ==
  CASE v.t = "str"  -> v.s # <<>>
    [] v.t = "num"  -> v.n # 0
    [] v.t = "bool" -> v.b
    [] OTHER        -> FALSE

\* x || y
Or(x, y) == IF Truthy(x) THEN x ELSE y

----------------------------------------------------------------------------
(* Strings *)

UpperCase == <<"A","B","C","D","E","F","G","H","I","J","K","L","M","N","O","P","Q","R","S","T","U","V","W","X","Y","Z">>
LowerCase == <<"a","b","c","d","e","f","g","h","i","j","k","l","m","n","o","p","q","r","s","t","u","v","w","x","y","z">>
HexDigits == <<"0","1","2","3","4","5","6","7","8","9","a","b","c","d","e","f">>

WhiteSpace == {" ", "\t", "\n", "\r"}

LowerChar(c) ==
  IF \E i \in 1..Len(UpperCase) : UpperCase[i] = c
    THEN LowerCase[CHOOSE i \in 1..Len(UpperCase) : UpperCase[i] = c]
    ELSE c

\* String.prototype.toLowerCase
toLowerCase(s) == [i \in 1..Len(s) |-> LowerChar(s[i])]

RECURSIVE TrimStart(_)
TrimStart(s) ==
  IF s # <<>> /\ Head(s) \in WhiteSpace THEN TrimStart(Tail(s)) ELSE s

RECURSIVE TrimEnd(_)
TrimEnd(s) ==
  IF s # <<>> /\ s[Len(s)] \in WhiteSpace
    THEN TrimEnd(SubSeq(s, 1, Len(s) - 1)) ELSE s

\* String.prototype.trim
trim(s) == TrimEnd(TrimStart(s))

\* String.prototype.split with a one-character separator: "" splits to [""]
RECURSIVE split(_, _)
split(s, sep) ==
  IF \E i \in 1..Len(s) : s[i] = sep
    THEN LET k == CHOOSE i \in 1..Len(s) :
                    s[i] = sep /\ \A j \in 1..(i - 1) : s[j] # sep
         IN  <<SubSeq(s, 1, k - 1)>> \o split(SubSeq(s, k + 1, Len(s)), sep)
    ELSE <<s>>

\* cell.replace(/"/g, '')
StripQuotes(cell) == SelectSeq(cell, LAMBDA c : c # "\"")

\* the value of a digit in the given radix, or -1
DigitValue(c, radix) ==
  LET l == LowerChar(c)
  IN  IF \E i \in 1..radix : HexDigits[i] = l
        THEN (CHOOSE i \in 1..radix : HexDigits[i] = l) - 1
        ELSE -1

RECURSIVE ParseDigits(_, _, _, _)
ParseDigits(s, radix, acc, seen) ==
  IF s # <<>> /\ DigitValue(Head(s), radix) >= 0
    THEN ParseDigits(Tail(s), radix, acc * radix + DigitValue(Head(s), radix), TRUE)
    ELSE [seen |-> seen, val |-> acc]

\* parseInt(string) without a radix: leading white space, a sign, an optional
\* 0x prefix, then the longest run of digits; NaN when there is none.
parseInt(str) ==
  LET s1  == TrimStart(str)
      neg == s1 # <<>> /\ Head(s1) = "-"
      s2  == IF s1 # <<>> /\ Head(s1) \in {"+", "-"} THEN Tail(s1) ELSE s1
      hex == Len(s2) >= 2 /\ s2[1] = "0" /\ s2[2] \in {"x", "X"}
      s3  == IF hex THEN SubSeq(s2, 3, Len(s2)) ELSE s2
      r   == ParseDigits(s3, IF hex THEN 16 ELSE 10, 0, FALSE)
  IN  IF r.seen THEN JNum(IF neg THEN 0 - r.val ELSE r.val) ELSE NaN

RECURSIVE NatToString(_)
NatToString(n) ==
  IF n < 10 THEN <<HexDigits[n + 1]>>
            ELSE NatToString(n \div 10) \o <<HexDigits[(n % 10) + 1]>>

\* the decimal text of an integer
IntToString(n) == IF n < 0 THEN <<"-">> \o NatToString(0 - n) ELSE NatToString(n)

----------------------------------------------------------------------------
(* Field names and literals of the program *)

S_id           == <<"i","d">>
S_task         == <<"t","a","s","k">>
S_completed    == <<"c","o","m","p","l","e","t","e","d">>
S_created_date == <<"c","r","e","a","t","e","d","_","d","a","t","e">>
S_true         == <<"t","r","u","e">>

\* demo data of two rows
FallbackRowsTwo ==
  << <<S_id, S_task, S_completed, S_created_date>>,
     << <<"1">>, <<"L","e","a","r","n"," ","A","P","I","s"," ","f","r","o","m"," ","G","o","o","g","l","e"," ","S","h","e","e","t","s">>,
        <<"f","a","l","s","e">>, <<"2","0","2","4","-","0","7","-","1","3">> >>,
     << <<"2">>, <<"B","u","i","l","d"," ","r","e","a","l","-","t","i","m","e"," ","i","n","t","e","g","r","a","t","i","o","n">>,
        <<"f","a","l","s","e">>, <<"2","0","2","4","-","0","7","-","1","3">> >> >>

\* the demo data fetchSheetData returns when the sheet is not accessible
FallbackRows ==
  << <<S_id, S_task, S_completed, S_created_date>>,
     << <<"1">>, <<"L","e","a","r","n"," ","A","P","I","s"," ","f","r","o","m"," ","G","o","o","g","l","e"," ","S","h","e","e","t","s">>,
        <<"f","a","l","s","e">>, <<"2","0","2","4","-","0","7","-","1","3">> >>,
     << <<"2">>, <<"B","u","i","l","d"," ","r","e","a","l","-","t","i","m","e"," ","i","n","t","e","g","r","a","t","i","o","n">>,
        <<"f","a","l","s","e">>, <<"2","0","2","4","-","0","7","-","1","3">> >>,
     << <<"3">>, <<"D","e","p","l","o","y"," ","t","o"," ","p","r","o","d","u","c","t","i","o","n">>,
        <<"f","a","l","s","e">>, <<"2","0","2","4","-","0","7","-","1","3">> >> >>

----------------------------------------------------------------------------
(* fetchSheetData: the CSV tokenizer, the row sanitizer and the fallback *)

\* a tokenizer that drops the empty cells of a line
TokenizeSkipEmpty(csvText) ==
  LET lines == split(csvText, "\n")
  IN  [i \in 1..Len(lines) |->
         LET cells == SelectSeq(split(lines[i], ","), LAMBDA cell : cell # <<>>)
         IN  [j \in 1..Len(cells) |-> StripQuotes(cells[j])]]

\* csvText.split('\n').map(row => row.split(',').map(cell => cell.replace(/"/g, '')))
Tokenize(csvText) ==
  LET lines == split(csvText, "\n")
  IN  [i \in 1..Len(lines) |->
         LET cells == split(lines[i], ",")
         IN  [j \in 1..Len(cells) |-> StripQuotes(cells[j])]]

\* a filter that asks every cell of a row to be non-blank
CleanRowsEvery(rows) ==
  SelectSeq(rows, LAMBDA row : \A j \in 1..Len(row) : trim(row[j]) # <<>>)

\* rows.filter(row => row.some(cell => cell.trim() !== ''))
CleanRows(rows) ==
  SelectSeq(rows, LAMBDA row : \E j \in 1..Len(row) : trim(row[j]) # <<>>)

\* fetchSheetData with a catch block that returns no rows
fetchSheetDataNoDemo(res) ==
  IF res.kind = "ok" THEN CleanRows(Tokenize(res.text)) ELSE <<>>

\* The upstream answer `res` is [kind, status, text]: kind "ok" is a 2xx
\* answer whose body decoded to text; "status" a non-2xx answer; "network" a
\* rejected fetch; "decode" a 2xx answer whose body could not be read.
fetchSheetData(res) ==
  IF res.kind = "ok" THEN CleanRows(Tokenize(res.text)) ELSE FallbackRows

----------------------------------------------------------------------------
(* rowsToJSON *)

\* obj.name, undefined when the object has no such property
Get(obj, name) == IF name \in DOMAIN obj THEN obj[name] ELSE Undef

\* obj[name] = v
Put(obj, name, v) == (name :> v) @@ obj

\* a zip that keeps the first value stored under a name
RECURSIVE ZipRowFirstWins(_, _, _, _)
ZipRowFirstWins(headers, row, i, obj) ==
  IF i > Len(headers) THEN obj
  ELSE ZipRowFirstWins(headers, row, i + 1,
                       IF headers[i] \in DOMAIN obj THEN obj
                       ELSE Put(obj, headers[i],
                                Or(IF i <= Len(row) THEN JStr(row[i]) ELSE Undef, JStr(<<>>))))

\* a zip that stores row[i] as it is, without the || ''
RECURSIVE ZipRowNoDefault(_, _, _, _)
ZipRowNoDefault(headers, row, i, obj) ==
  IF i > Len(headers) THEN obj
  ELSE ZipRowNoDefault(headers, row, i + 1,
                       Put(obj, headers[i],
                           IF i <= Len(row) THEN JStr(row[i]) ELSE Undef))

\* headers.forEach((header, i) => { obj[header] = row[i] || ''; })
RECURSIVE ZipRow(_, _, _, _)
ZipRow(headers, row, i, obj) ==
  IF i > Len(headers) THEN obj
  ELSE ZipRow(headers, row, i + 1,
              Put(obj, headers[i],
                  Or(IF i <= Len(row) THEN JStr(row[i]) ELSE Undef, JStr(<<>>))))

\* the record of the data row at 0-based position `index`
RowToObject(headers, row, index) ==
  LET obj  == ZipRow(headers, row, 1, <<>>)
      obj1 == IF Truthy(Get(obj, S_id))
                THEN Put(obj, S_id, Or(parseInt(obj[S_id].s), JNum(index + 1)))
                ELSE obj
      obj2 == IF Truthy(Get(obj1, S_completed))
                THEN Put(obj1, S_completed,
                         JBool(toLowerCase(obj1[S_completed].s) = S_true))
                ELSE obj1
  IN  obj2

\* a conversion that takes the header row for a data row as well
rowsToJSONHeaderAsData(rows) ==
  IF Len(rows) < 1 THEN <<>>
  ELSE LET headers == [i \in 1..Len(rows[1]) |-> trim(toLowerCase(rows[1][i]))]
       IN  [k \in 1..Len(rows) |-> RowToObject(headers, rows[k], k - 1)]

rowsToJSON(rows) ==
  IF Len(rows) < 2 THEN <<>>
  ELSE LET headers  == [i \in 1..Len(rows[1]) |-> trim(toLowerCase(rows[1][i]))]
           dataRows == SubSeq(rows, 2, Len(rows))
       IN  [k \in 1..Len(dataRows) |-> RowToObject(headers, dataRows[k], k - 1)]

----------------------------------------------------------------------------
(* The Express server's copies of fetchSheetData and rowsToJSON *)

\* the demo data of the Express server's fetchSheetData
ExpressFallbackRows ==
  << << <<"i","d">>, <<"t","a","s","k">>, <<"c","o","m","p","l","e","t","e","d">>,
        <<"c","r","e","a","t","e","d","_","d","a","t","e">> >>,
     << <<"1">>, <<"L","e","a","r","n"," ","A","P","I","s"," ","f","r","o","m"," ","G","o","o","g","l","e"," ","S","h","e","e","t","s">>,
        <<"f","a","l","s","e">>, <<"2","0","2","4","-","0","7","-","1","3">> >>,
     << <<"2">>, <<"B","u","i","l","d"," ","r","e","a","l","-","t","i","m","e"," ","i","n","t","e","g","r","a","t","i","o","n">>,
        <<"f","a","l","s","e">>, <<"2","0","2","4","-","0","7","-","1","3">> >>,
     << <<"3">>, <<"D","e","p","l","o","y"," ","t","o"," ","p","r","o","d","u","c","t","i","o","n">>,
        <<"f","a","l","s","e">>, <<"2","0","2","4","-","0","7","-","1","3">> >> >>

\* an Express fetchSheetData that returns what it has on a failure: no rows
ExpressFetchSheetDataNoRows(res) ==
  IF res.kind = "ok"
    THEN LET lines == split(res.text, "\n")
             rws   == [i \in 1..Len(lines) |->
                         LET cells == split(lines[i], ",")
                         IN  [j \in 1..Len(cells) |-> StripQuotes(cells[j])]]
         IN  SelectSeq(rws, LAMBDA row : \E j \in 1..Len(row) : trim(row[j]) # <<>>)
    ELSE <<>>

\* The Express server's fetchSheetData.  On a non-2xx answer it reads the
\* body for the log before it throws; whether that read succeeds or throws,
\* the catch block returns the demo data.
ExpressFetchSheetData(res) ==
  IF res.kind = "ok"
    THEN LET lines == split(res.text, "\n")
             rws   == [i \in 1..Len(lines) |->
                         LET cells == split(lines[i], ",")
                         IN  [j \in 1..Len(cells) |-> StripQuotes(cells[j])]]
         IN  SelectSeq(rws, LAMBDA row : \E j \in 1..Len(row) : trim(row[j]) # <<>>)
    ELSE ExpressFallbackRows

\* headers.forEach((header, i) => { obj[header] = row[i] || ''; })
RECURSIVE ExpressZipRow(_, _, _, _)
ExpressZipRow(headers, row, i, obj) ==
  IF i > Len(headers) THEN obj
  ELSE ExpressZipRow(headers, row, i + 1,
                     Put(obj, headers[i],
                         Or(IF i <= Len(row) THEN JStr(row[i]) ELSE Undef, JStr(<<>>))))

\* the Express server's rowsToJSON
ExpressRowsToJSON(rws) ==
  IF Len(rws) < 2 THEN <<>>
  ELSE LET headers  == [i \in 1..Len(rws[1]) |-> trim(toLowerCase(rws[1][i]))]
           dataRows == SubSeq(rws, 2, Len(rws))
       IN  [k \in 1..Len(dataRows) |->
              LET obj  == ExpressZipRow(headers, dataRows[k], 1, <<>>)
                  obj1 == IF Truthy(Get(obj, S_id))
                            THEN Put(obj, S_id, Or(parseInt(obj[S_id].s), JNum(k)))
                            ELSE obj
              IN  IF Truthy(Get(obj1, S_completed))
                    THEN Put(obj1, S_completed,
                             JBool(toLowerCase(obj1[S_completed].s) = S_true))
                    ELSE obj1]

----------------------------------------------------------------------------
(* addToSheet: the next identifier and the row it submits *)

RECURSIVE IsDigits(_)
IsDigits(s) ==
  s = <<>> \/ (DigitValue(Head(s), 10) >= 0 /\ IsDigits(Tail(s)))

\* ToNumber, as Math.max applies it to each argument.  The only strings
\* rowsToJSON leaves in an id are empty; integer texts are covered besides.
ToNumber(v) ==
  CASE v.t = "num"  -> v
    [] v.t = "bool" -> JNum(IF v.b THEN 1 ELSE 0)
    [] v.t = "str"  ->
         LET s == trim(v.s)
             d == IF s # <<>> /\ Head(s) \in {"+", "-"} THEN Tail(s) ELSE s
         IN  IF s = <<>> THEN JNum(0)
             ELSE IF d # <<>> /\ IsDigits(d) THEN parseInt(s) ELSE NaN
    [] OTHER        -> NaN

\* Math.max(...vals) of a non-empty list
MathMax(vals) ==
  LET nums == [i \in 1..Len(vals) |-> ToNumber(vals[i])]
  IN  IF \E i \in 1..Len(nums) : nums[i] = NaN THEN NaN
      ELSE JNum(CHOOSE m \in {nums[i].n : i \in 1..Len(nums)} :
                  \A i \in 1..Len(nums) : nums[i].n <= m)

\* x + 1
PlusOne(v) == IF v.t = "num" THEN JNum(v.n + 1) ELSE NaN

\* todos.length > 0 ? Math.max(...todos.map(t => t.id)) + 1 : 1
NextId(todos) ==
  IF Len(todos) > 0
    THEN PlusOne(MathMax([i \in 1..Len(todos) |-> Get(todos[i], S_id)]))
    ELSE JNum(1)

\* the calendar date of `new Date().toISOString().split('T')[0]`
Today == <<"2","0","2","6","-","1","1","-","0","4">>

\* a row with the task in the first column and the id in the second
NewRowTaskFirst(id, newTodo) ==
  << Or(newTodo.task, JStr(<<>>)),
     id,
     Or(newTodo.completed, JBool(FALSE)),
     Or(newTodo.created_date, JStr(Today)) >>

\* [nextId, newTodo.task || '', newTodo.completed || false, newTodo.created_date || today]
NewRow(id, newTodo) ==
  << id,
     Or(newTodo.task, JStr(<<>>)),
     Or(newTodo.completed, JBool(FALSE)),
     Or(newTodo.created_date, JStr(Today)) >>

----------------------------------------------------------------------------
(* The remote spreadsheet: the CSV export the read fetch downloads and the *)
(* values-append endpoint the write request posts to.                      *)

\* the cell a RAW appended JSON value becomes (NaN is sent as null: empty)
CellOf(v) ==
  CASE v.t = "num"  -> IntToString(v.n)
    [] v.t = "str"  -> v.s
    [] v.t = "bool" -> IF v.b THEN <<"T","R","U","E">> ELSE <<"F","A","L","S","E">>
    [] OTHER        -> <<>>

RowCells(row) == [i \in 1..Len(row) |-> CellOf(row[i])]

\* an append endpoint that numbers the row itself, from the rows it holds
AppendedCellsNumbered(current, row) ==
  [RowCells(row) EXCEPT ![1] = CellOf(NextId(rowsToJSON(current)))]

\* the row the append endpoint adds below `current` for body {values: [row]}
AppendedCells(current, row) == RowCells(row)

RECURSIVE Join(_, _)
Join(parts, sep) ==
  IF parts = <<>> THEN <<>>
  ELSE IF Len(parts) = 1 THEN parts[1]
  ELSE parts[1] \o <<sep>> \o Join(Tail(parts), sep)

RECURSIVE DoubleQuotes(_)
DoubleQuotes(s) ==
  IF s = <<>> THEN <<>>
  ELSE (IF Head(s) = "\"" THEN <<"\"", "\"">> ELSE <<Head(s)>>) \o DoubleQuotes(Tail(s))

\* a cell of the export: quoted when it holds a comma, a quote or a line break
CsvCell(cell) ==
  IF \E i \in 1..Len(cell) : cell[i] \in {",", "\"", "\n", "\r"}
    THEN <<"\"">> \o DoubleQuotes(cell) \o <<"\"">>
    ELSE cell

\* the body of export?format=csv for the sheet's rows
CsvExport(rows) ==
  Join([i \in 1..Len(rows) |->
          Join([j \in 1..Len(rows[i]) |-> CsvCell(rows[i][j])], ",")], "\n")

----------------------------------------------------------------------------
(* Configuration, requests and upstream answers *)

SHEET_ID == "1Ne_97lKivp4f3zFtbY7JFbyhzwrHbEVy_TM2MZSEN_E"

\* req.body.task.length > 100
MaxTaskLength == 100

\* the concurrent executions of the handler the platform runs
Requests == {"r1", "r2"}

\* how many accepted POSTs a behaviour may start
MaxAppends == 2

Methods == {"OPTIONS", "GET", "POST", "PUT"}

Chars(n, c) == [i \in 1..n |-> c]

NoBody == [present |-> FALSE, task |-> Undef, completed |-> Undef, created_date |-> Undef]

Body(task, completed, created_date) ==
  [present |-> TRUE, task |-> task, completed |-> completed, created_date |-> created_date]

\* the request bodies the model sends with a POST
Bodies ==
  { NoBody,
    Body(Undef, Undef, Undef),
    Body(JStr(<<>>), Undef, Undef),
    Body(JStr(<<" ", "b", " ">>), JBool(TRUE), JStr(<<"2","0","2","4","-","0","1","-","0","2">>)),
    Body(JStr(<<" ", " ">>), Undef, Undef),
    Body(JStr(Chars(MaxTaskLength, "x")), Undef, Undef),
    Body(JStr(Chars(MaxTaskLength + 1, "x")), Undef, Undef),
    Body(JNum(7), Undef, Undef) }

SheetHeader == <<S_id, S_task, S_completed, S_created_date>>

\* the contents the spreadsheet may start with
InitialSheets ==
  { <<SheetHeader>>,
    <<SheetHeader,
      << <<"1">>, <<"a">>, <<"F","A","L","S","E">>, <<"2","0","2","4","-","0","7","-","1","3">> >>,
      << <<"2">>, <<"b">>, <<"T","R","U","E">>, <<"2","0","2","4","-","0","7","-","1","3">> >> >> }

\* a header line followed only by blank lines
HeaderThenBlankLines == <<"i","d",",","t","a","s","k","\n","\n"," ","\n">>

\* 2xx bodies that are not the export of the sheet's table: an empty body,
\* a text whose header row has no id column, and a header line followed
\* only by blank lines
OtherBodies == { <<>>, <<"t","a","s","k","\n","x">>, HeaderThenBlankLines }

\* the inputs of the runs with two concurrent executions
ConcurrentMethods == {"GET", "POST"}
ConcurrentBodies ==
  { Body(JStr(<<" ", "b", " ">>), JBool(TRUE), JStr(<<"2","0","2","4","-","0","1","-","0","2">>)) }
ConcurrentAppends == {"ok", "status"}

\* what the CSV export endpoint may answer to the read fetch
ReadAnswers(current) ==
  { [kind |-> "ok", live |-> TRUE, status |-> 200, text |-> CsvExport(current)] }
  \cup { [kind |-> "ok", live |-> FALSE, status |-> 200, text |-> b] : b \in OtherBodies }
  \cup { [kind |-> "status", live |-> FALSE, status |-> s, text |-> <<>>] : s \in {404} }
  \cup { [kind |-> k, live |-> FALSE, status |-> 0, text |-> <<>>] : k \in {"network", "decode"} }

\* what the values-append endpoint may answer: "ok" a 2xx answer with a JSON
\* body, "badjson" a 2xx answer whose body is not JSON, "status" a non-2xx
\* answer, "network" a rejected fetch (the row may or may not have been added)
AppendAnswers ==
  { [kind |-> k, status |-> 200, text |-> "", applied |-> TRUE] : k \in {"ok", "badjson"} }
  \cup { [kind |-> "status", status |-> s, text |-> "denied", applied |-> FALSE] : s \in {403} }
  \cup { [kind |-> "network", status |-> 0, text |-> "", applied |-> a] : a \in BOOLEAN }

NoAnswer == [kind |-> "none"]
NoResponse == [status |-> 0]

----------------------------------------------------------------------------
(* State *)

VARIABLES
  apiKey,     \* whether process.env.GOOGLE_API_KEY is set
  sheet,      \* the rows of the remote spreadsheet
  started,    \* accepted POSTs started so far
  pc,         \* where each execution of the handler stands
  req,        \* its request: method and body
  fetched,    \* the answer its read fetch got
  rows,       \* const rows = await fetchSheetData(SHEET_ID)
  todos,      \* const todos = rowsToJSON(rows)
  nextId,     \* addToSheet's nextId
  newTodo,    \* the handler's newTodo
  newRow,     \* addToSheet's newRow
  resp,       \* the response sent
  reads,      \* read fetches issued
  appends,    \* append requests issued
  responses,  \* responses sent
  answer,     \* the answer its append request got
  seen,       \* rows in the spreadsheet when its read fetch was answered
  pos,        \* the spreadsheet row its append added, 0 if none
  outage,     \* history: a read fetch has failed earlier in the behaviour
  matrix,     \* the argument of rowsToJSON (SpecRows)
  records,    \* its result (SpecRows)
  stage,      \* "build", "done" (SpecRows, SpecCsv); "off" elsewhere
  csv,        \* the CSV text downloaded for the matrix (SpecCsv)
  tokens,     \* the rows the tokenizer makes of it (SpecCsv)
  cleaned,    \* the matrix fetchSheetData returns for it (SpecCsv)
  served,     \* the requests the read-only handlers answered (SpecReadOnly)
  expressRecords  \* the records the Express server makes of the download (SpecCsv)

hvars == <<apiKey, sheet, started, pc, req, fetched, rows, todos, nextId,
           newTodo, newRow, resp, reads, appends, responses, answer, seen, pos,
           outage>>
pvars == <<matrix, records, stage, csv, tokens, cleaned, served, expressRecords>>
vars  == <<hvars, pvars>>

HandlerInit ==
  /\ started = 0
  /\ pc = [r \in Requests |-> "idle"]
  /\ req = [r \in Requests |-> [method |-> "NONE", body |-> NoBody]]
  /\ fetched = [r \in Requests |-> NoAnswer]
  /\ rows = [r \in Requests |-> <<>>]
  /\ todos = [r \in Requests |-> <<>>]
  /\ nextId = [r \in Requests |-> Undef]
  /\ newTodo = [r \in Requests |-> Undef]
  /\ newRow = [r \in Requests |-> <<>>]
  /\ resp = [r \in Requests |-> NoResponse]
  /\ reads = [r \in Requests |-> 0]
  /\ appends = [r \in Requests |-> 0]
  /\ responses = [r \in Requests |-> 0]
  /\ answer = [r \in Requests |-> NoAnswer]
  /\ seen = [r \in Requests |-> 0]
  /\ pos = [r \in Requests |-> 0]
  /\ outage = FALSE

\* the variables of the other specifications, at rest
PureInit ==
  /\ csv = <<>>
  /\ tokens = <<>>
  /\ cleaned = <<>>
  /\ served = <<>>
  /\ expressRecords = <<>>

Init ==
  /\ apiKey \in BOOLEAN
  /\ sheet \in InitialSheets
  /\ HandlerInit
  /\ matrix = <<>>
  /\ records = <<>>
  /\ stage = "off"
  /\ PureInit

----------------------------------------------------------------------------
(* handler *)

\* a path that responds and, for want of a return, responds once more
SendTwice(r, response) ==
  /\ resp' = [resp EXCEPT ![r] = response]
  /\ responses' = [responses EXCEPT ![r] = @ + 2]
  /\ pc' = [pc EXCEPT ![r] = "done"]

\* res.status(s).json(body) or res.status(s).end(): the execution is over
Send(r, response) ==
  /\ resp' = [resp EXCEPT ![r] = response]
  /\ responses' = [responses EXCEPT ![r] = @ + 1]
  /\ pc' = [pc EXCEPT ![r] = "done"]

\* a catch block that answers without the error's text
InternalErrorNoText(error) ==
  [status |-> 500, success |-> FALSE, message |-> "Internal server error"]

\* the catch block of the handler
InternalError(error) ==
  [status |-> 500, success |-> FALSE, message |-> "Internal server error", error |-> error]

\* a handler that never checks the credential
KeyMissingUnchecked(key) == FALSE

\* if (!API_KEY)
KeyMissing(key) == ~key

\* a length check that is off by one
TooLongOffByOne(task) == task.t = "str" /\ Len(task.s) > MaxTaskLength + 1

\* req.body.task.length > 100 (undefined > 100 is false)
TooLong(task) == task.t = "str" /\ Len(task.s) > MaxTaskLength

\* an error text that leaves the upstream status out
SheetsApiErrorNoStatus(ans) ==
  [name |-> "Sheets API error", status |-> 0, text |-> ans.text]

\* new Error(`Sheets API error: ${response.status} - ${errorText}`)
SheetsApiError(ans) ==
  [name |-> "Sheets API error", status |-> ans.status, text |-> ans.text]

\* whether the POST passes the handler's checks and reaches the network
Accepted(b) ==
  /\ apiKey
  /\ b.present
  /\ Truthy(b.task)
  /\ b.task.t = "str"
  /\ ~TooLong(b.task)

\* a handler that validates the body before it checks the credential
ReceiveValidatingFirst(r, m, b) ==
  /\ pc[r] = "idle"
  /\ (m = "POST" /\ Accepted(b)) => started < MaxAppends
  /\ req' = [req EXCEPT ![r] = [method |-> m, body |-> b]]
  /\ IF m = "OPTIONS" THEN
       /\ Send(r, [status |-> 200])
       /\ UNCHANGED <<reads, newTodo, started>>
     ELSE IF m = "GET" THEN
       /\ pc' = [pc EXCEPT ![r] = "get_fetch"]
       /\ reads' = [reads EXCEPT ![r] = @ + 1]
       /\ UNCHANGED <<resp, responses, newTodo, started>>
     ELSE IF m = "POST" THEN
       IF ~b.present \/ ~Truthy(b.task) THEN
         /\ Send(r, [status |-> 400, success |-> FALSE,
                     message |-> "Missing required field: task"])
         /\ UNCHANGED <<reads, newTodo, started>>
       ELSE IF TooLong(b.task) THEN
         /\ Send(r, [status |-> 400, success |-> FALSE,
                     message |-> "Task too long. Maximum 100 characters allowed."])
         /\ UNCHANGED <<reads, newTodo, started>>
       ELSE IF KeyMissing(apiKey) THEN
         /\ Send(r, [status |-> 500, success |-> FALSE,
                     message |-> "Google API key not configured. Please set GOOGLE_API_KEY environment variable."])
         /\ UNCHANGED <<reads, newTodo, started>>
       ELSE IF b.task.t # "str" THEN
         \* req.body.task.trim is not a function
         /\ Send(r, InternalError([name |-> "TypeError"]))
         /\ UNCHANGED <<reads, newTodo, started>>
       ELSE IF ~apiKey THEN
         \* addToSheet: throw new Error('Google API key not configured')
         /\ Send(r, InternalError([name |-> "Google API key not configured"]))
         /\ UNCHANGED <<reads, newTodo, started>>
       ELSE
         /\ newTodo' = [newTodo EXCEPT ![r] =
                          [task |-> JStr(trim(b.task.s)),
                           completed |-> Or(b.completed, JBool(FALSE)),
                           created_date |-> Or(b.created_date, JStr(Today))]]
         /\ pc' = [pc EXCEPT ![r] = "post_fetch"]
         /\ reads' = [reads EXCEPT ![r] = @ + 1]
         /\ started' = started + 1
         /\ UNCHANGED <<resp, responses>>
     ELSE
       /\ Send(r, [status |-> 405, success |-> FALSE,
                   message |-> "Method not allowed. Supported methods: GET, POST"])
       /\ UNCHANGED <<reads, newTodo, started>>
  /\ UNCHANGED <<apiKey, sheet, fetched, rows, todos, nextId, newRow, appends,
                 answer, seen, pos, outage>>
  /\ UNCHANGED pvars

\* The handler up to its first await: CORS headers, the method dispatch, the
\* POST checks, newTodo, and addToSheet up to the read fetch it issues.
Receive(r, m, b) ==
  /\ pc[r] = "idle"
  /\ (m = "POST" /\ Accepted(b)) => started < MaxAppends
  /\ req' = [req EXCEPT ![r] = [method |-> m, body |-> b]]
  /\ IF m = "OPTIONS" THEN
       /\ Send(r, [status |-> 200])
       /\ UNCHANGED <<reads, newTodo, started>>
     ELSE IF m = "GET" THEN
       /\ pc' = [pc EXCEPT ![r] = "get_fetch"]
       /\ reads' = [reads EXCEPT ![r] = @ + 1]
       /\ UNCHANGED <<resp, responses, newTodo, started>>
     ELSE IF m = "POST" THEN
       IF KeyMissing(apiKey) THEN
         /\ Send(r, [status |-> 500, success |-> FALSE,
                     message |-> "Google API key not configured. Please set GOOGLE_API_KEY environment variable."])
         /\ UNCHANGED <<reads, newTodo, started>>
       ELSE IF ~b.present \/ ~Truthy(b.task) THEN
         /\ Send(r, [status |-> 400, success |-> FALSE,
                     message |-> "Missing required field: task"])
         /\ UNCHANGED <<reads, newTodo, started>>
       ELSE IF TooLong(b.task) THEN
         /\ Send(r, [status |-> 400, success |-> FALSE,
                     message |-> "Task too long. Maximum 100 characters allowed."])
         /\ UNCHANGED <<reads, newTodo, started>>
       ELSE IF b.task.t # "str" THEN
         \* req.body.task.trim is not a function
         /\ Send(r, InternalError([name |-> "TypeError"]))
         /\ UNCHANGED <<reads, newTodo, started>>
       ELSE IF ~apiKey THEN
         \* addToSheet: throw new Error('Google API key not configured')
         /\ Send(r, InternalError([name |-> "Google API key not configured"]))
         /\ UNCHANGED <<reads, newTodo, started>>
       ELSE
         /\ newTodo' = [newTodo EXCEPT ![r] =
                          [task |-> JStr(trim(b.task.s)),
                           completed |-> Or(b.completed, JBool(FALSE)),
                           created_date |-> Or(b.created_date, JStr(Today))]]
         /\ pc' = [pc EXCEPT ![r] = "post_fetch"]
         /\ reads' = [reads EXCEPT ![r] = @ + 1]
         /\ started' = started + 1
         /\ UNCHANGED <<resp, responses>>
     ELSE
       /\ Send(r, [status |-> 405, success |-> FALSE,
                   message |-> "Method not allowed. Supported methods: GET, POST"])
       /\ UNCHANGED <<reads, newTodo, started>>
  /\ UNCHANGED <<apiKey, sheet, fetched, rows, todos, nextId, newRow, appends,
                 answer, seen, pos, outage>>
  /\ UNCHANGED pvars

\* the time of `new Date().toISOString()`
Now == "2026-11-04T09:00:00.000Z"

\* an envelope whose count takes the header row for a record
ReadEnvelopeCountingHeader(list) ==
  [status |-> 200, success |-> TRUE,
   data |-> list, count |-> Len(list) + 1,
   source |-> "Real Google Sheets", sheet_id |-> SHEET_ID, last_updated |-> Now]

\* res.status(200).json({success: true, data: todos, count: todos.length, ...})
ReadEnvelope(list) ==
  [status |-> 200, success |-> TRUE,
   data |-> list, count |-> Len(list),
   source |-> "Real Google Sheets", sheet_id |-> SHEET_ID, last_updated |-> Now]

\* a GET whose fetchSheetData rethrows instead of falling back: the handler's
\* catch block answers
GetFetchRethrowing(r, res) ==
  /\ pc[r] = "get_fetch"
  /\ fetched' = [fetched EXCEPT ![r] = res]
  /\ seen' = [seen EXCEPT ![r] = Len(sheet)]
  /\ outage' = (outage \/ res.kind # "ok")
  /\ IF res.kind = "ok"
       THEN LET list == rowsToJSON(CleanRows(Tokenize(res.text)))
            IN  /\ rows' = [rows EXCEPT ![r] = CleanRows(Tokenize(res.text))]
                /\ todos' = [todos EXCEPT ![r] = list]
                /\ Send(r, ReadEnvelope(list))
       ELSE /\ Send(r, InternalError([name |-> "HTTP error"]))
            /\ UNCHANGED <<rows, todos>>
  /\ UNCHANGED <<apiKey, sheet, started, req, nextId, newTodo, newRow, reads,
                 appends, answer, pos>>
  /\ UNCHANGED pvars

\* a GET whose fetchSheetData fetches again after a failure
GetFetchRetrying(r, res) ==
  /\ pc[r] = "get_fetch"
  /\ fetched' = [fetched EXCEPT ![r] = res]
  /\ seen' = [seen EXCEPT ![r] = Len(sheet)]
  /\ outage' = (outage \/ res.kind # "ok")
  /\ IF res.kind = "ok"
       THEN LET got  == fetchSheetData(res)
                list == rowsToJSON(got)
            IN  /\ rows' = [rows EXCEPT ![r] = got]
                /\ todos' = [todos EXCEPT ![r] = list]
                /\ Send(r, ReadEnvelope(list))
                /\ UNCHANGED reads
       ELSE /\ reads' = [reads EXCEPT ![r] = @ + 1]
            /\ UNCHANGED <<rows, todos, resp, responses, pc>>
  /\ UNCHANGED <<apiKey, sheet, started, req, nextId, newTodo, newRow,
                 appends, answer, pos>>
  /\ UNCHANGED pvars

\* a GET that keeps serving the demo data once a read fetch has failed
GetFetchSticky(r, res) ==
  /\ pc[r] = "get_fetch"
  /\ fetched' = [fetched EXCEPT ![r] = res]
  /\ seen' = [seen EXCEPT ![r] = Len(sheet)]
  /\ outage' = (outage \/ res.kind # "ok")
  /\ LET got  == IF outage THEN FallbackRows ELSE fetchSheetData(res)
         list == rowsToJSON(got)
     IN  /\ rows' = [rows EXCEPT ![r] = got]
         /\ todos' = [todos EXCEPT ![r] = list]
         /\ Send(r, ReadEnvelope(list))
  /\ UNCHANGED <<apiKey, sheet, started, req, nextId, newTodo, newRow, reads,
                 appends, answer, pos>>
  /\ UNCHANGED pvars

\* a GET whose envelope names the demo data as its source
GetFetchHonestSource(r, res) ==
  /\ pc[r] = "get_fetch"
  /\ fetched' = [fetched EXCEPT ![r] = res]
  /\ seen' = [seen EXCEPT ![r] = Len(sheet)]
  /\ outage' = (outage \/ res.kind # "ok")
  /\ LET got  == fetchSheetData(res)
         list == rowsToJSON(got)
     IN  /\ rows' = [rows EXCEPT ![r] = got]
         /\ todos' = [todos EXCEPT ![r] = list]
         /\ Send(r, [ReadEnvelope(list) EXCEPT
                       !.source = IF res.kind = "ok" THEN @ ELSE "Fallback data"])
  /\ UNCHANGED <<apiKey, sheet, started, req, nextId, newTodo, newRow, reads,
                 appends, answer, pos>>
  /\ UNCHANGED pvars

\* GET: the read fetch is answered; the handler maps the rows and responds
GetFetch(r, res) ==
  /\ pc[r] = "get_fetch"
  /\ fetched' = [fetched EXCEPT ![r] = res]
  /\ seen' = [seen EXCEPT ![r] = Len(sheet)]
  /\ outage' = (outage \/ res.kind # "ok")
  /\ LET got  == fetchSheetData(res)
         list == rowsToJSON(got)
     IN  /\ rows' = [rows EXCEPT ![r] = got]
         /\ todos' = [todos EXCEPT ![r] = list]
         /\ Send(r, ReadEnvelope(list))
  /\ UNCHANGED <<apiKey, sheet, started, req, nextId, newTodo, newRow, reads,
                 appends, answer, pos>>
  /\ UNCHANGED pvars

\* an addToSheet that does not wait for the result of its read: the id is
\* computed from no records
PostFetchUnawaited(r, res) ==
  /\ pc[r] = "post_fetch"
  /\ fetched' = [fetched EXCEPT ![r] = res]
  /\ seen' = [seen EXCEPT ![r] = Len(sheet)]
  /\ outage' = (outage \/ res.kind # "ok")
  /\ LET got  == fetchSheetData(res)
         list == rowsToJSON(got)
         id   == NextId(<<>>)
     IN  /\ rows' = [rows EXCEPT ![r] = got]
         /\ todos' = [todos EXCEPT ![r] = list]
         /\ nextId' = [nextId EXCEPT ![r] = id]
         /\ newRow' = [newRow EXCEPT ![r] = NewRow(id, newTodo[r])]
  /\ appends' = [appends EXCEPT ![r] = @ + 1]
  /\ pc' = [pc EXCEPT ![r] = "post_append"]
  /\ UNCHANGED <<apiKey, sheet, started, req, newTodo, resp, reads, responses,
                 answer, pos>>
  /\ UNCHANGED pvars

\* POST: addToSheet's read fetch is answered; it computes nextId and newRow
\* and issues the append request
PostFetch(r, res) ==
  /\ pc[r] = "post_fetch"
  /\ fetched' = [fetched EXCEPT ![r] = res]
  /\ seen' = [seen EXCEPT ![r] = Len(sheet)]
  /\ outage' = (outage \/ res.kind # "ok")
  /\ LET got  == fetchSheetData(res)
         list == rowsToJSON(got)
         id   == NextId(list)
     IN  /\ rows' = [rows EXCEPT ![r] = got]
         /\ todos' = [todos EXCEPT ![r] = list]
         /\ nextId' = [nextId EXCEPT ![r] = id]
         /\ newRow' = [newRow EXCEPT ![r] = NewRow(id, newTodo[r])]
  /\ appends' = [appends EXCEPT ![r] = @ + 1]
  /\ pc' = [pc EXCEPT ![r] = "post_append"]
  /\ UNCHANGED <<apiKey, sheet, started, req, newTodo, resp, reads, responses,
                 answer, pos>>
  /\ UNCHANGED pvars

\* the record addToSheet returns
AddedTodo(r) ==
  [id |-> nextId[r], task |-> newTodo[r].task,
   completed |-> Or(newTodo[r].completed, JBool(FALSE)),
   created_date |-> Or(newTodo[r].created_date, JStr(Today)),
   sheets_response |-> "result"]

\* POST: the append request is answered; addToSheet returns or throws and
\* the handler responds
PostAppend(r, ans) ==
  /\ pc[r] = "post_append"
  /\ answer' = [answer EXCEPT ![r] = ans]
  /\ IF ans.applied
       THEN /\ sheet' = Append(sheet, AppendedCells(sheet, newRow[r]))
            /\ pos' = [pos EXCEPT ![r] = Len(sheet) + 1]
       ELSE UNCHANGED <<sheet, pos>>
  /\ IF ans.kind = "ok" THEN
       Send(r, [status |-> 201, success |-> TRUE,
                message |-> "Todo added successfully", data |-> AddedTodo(r)])
     ELSE IF ans.kind = "status" THEN
       Send(r, InternalError(SheetsApiError(ans)))
     ELSE IF ans.kind = "badjson" THEN
       Send(r, InternalError([name |-> "SyntaxError"]))
     ELSE
       Send(r, InternalError([name |-> "FetchError"]))
  /\ UNCHANGED <<apiKey, started, req, fetched, rows, todos, nextId, newTodo,
                 newRow, reads, appends, seen, outage>>
  /\ UNCHANGED pvars

\* the execution and everything it created are discarded; the platform may
\* run the handler again
Discard(r) ==
  /\ pc[r] = "done"
  /\ pc' = [pc EXCEPT ![r] = "idle"]
  /\ req' = [req EXCEPT ![r] = [method |-> "NONE", body |-> NoBody]]
  /\ fetched' = [fetched EXCEPT ![r] = NoAnswer]
  /\ rows' = [rows EXCEPT ![r] = <<>>]
  /\ todos' = [todos EXCEPT ![r] = <<>>]
  /\ nextId' = [nextId EXCEPT ![r] = Undef]
  /\ newTodo' = [newTodo EXCEPT ![r] = Undef]
  /\ newRow' = [newRow EXCEPT ![r] = <<>>]
  /\ resp' = [resp EXCEPT ![r] = NoResponse]
  /\ reads' = [reads EXCEPT ![r] = 0]
  /\ appends' = [appends EXCEPT ![r] = 0]
  /\ responses' = [responses EXCEPT ![r] = 0]
  /\ answer' = [answer EXCEPT ![r] = NoAnswer]
  /\ seen' = [seen EXCEPT ![r] = 0]
  /\ pos' = [pos EXCEPT ![r] = 0]
  /\ UNCHANGED <<apiKey, sheet, started, outage>>
  /\ UNCHANGED pvars

\* one execution at a time, every input and every upstream answer
Next ==
  \/ \E m \in Methods, b \in Bodies :
       (m # "POST" => b = NoBody) /\ Receive("r1", m, b)
  \/ \E res \in ReadAnswers(sheet) : GetFetch("r1", res)
  \/ \E res \in ReadAnswers(sheet) : PostFetch("r1", res)
  \/ \E ans \in AppendAnswers : PostAppend("r1", ans)
  \/ Discard("r1")

Spec == Init /\ [][Next]_vars

\* every outbound call is answered in the end: the read fetch of a GET, the
\* read fetch of a POST and its append request return or fail
Awaiting == {"get_fetch", "post_fetch", "post_append"}

\* an execution suspended at an await is resumed: its outbound call has
\* returned or failed and the execution moves to its next position
Resumes(r) ==
  /\ pc[r] \in Awaiting
  /\ \E to \in {"post_append", "done"} :
       to # pc[r] /\ pc' = [pc EXCEPT ![r] = to]

Answered == WF_pc(Resumes("r1"))

SpecLive == Init /\ [][Next]_vars /\ Answered

\* two concurrent executions: the platform interleaves them at their awaits
NextConcurrent ==
  \/ \E r \in Requests, m \in ConcurrentMethods, b \in ConcurrentBodies \cup {NoBody} :
       (m # "POST" <=> b = NoBody) /\ Receive(r, m, b)
  \/ \E r \in Requests : \E res \in ReadAnswers(sheet) :
       res.live /\ GetFetch(r, res)
  \/ \E r \in Requests : \E res \in ReadAnswers(sheet) :
       (res.live \/ res.kind = "network") /\ PostFetch(r, res)
  \/ \E r \in Requests : \E ans \in AppendAnswers :
       ans.kind \in ConcurrentAppends /\ PostAppend(r, ans)
  \/ \E r \in Requests : Discard(r)

InitConcurrent == Init /\ apiKey

SpecConcurrent == InitConcurrent /\ [][NextConcurrent]_vars

----------------------------------------------------------------------------
(* rowsToJSON applied to bounded matrices *)

\* data rows per matrix
MaxDataRows == 3

\* header rows: id first, id last under another spelling, no id column, and
\* one column name twice under two spellings
HeaderRows ==
  { <<S_id, S_task>>,
    <<<<"T","a","s","k">>, <<" ","I","D">>>>,
    <<S_task>>,
    <<<<"T","a","s","k">>, <<"t","a","s","k"," ">>>> }

\* data rows: numeric, zero, negative, blank, non-numeric and padded first
\* cells, and rows of one cell
DataRows ==
  { << <<"1">>, <<"a">> >>,
    << <<"0">>, <<"a">> >>,
    << <<"-","2">>, <<"7">> >>,
    << <<>>, <<"a">> >>,
    << <<"x">>, <<" ","5","b">> >>,
    << <<"a">> >>,
    << <<"4">>, <<>> >> }

\* data rows under the header id,task,completed,created_date: the documented
\* example row, a padded task with a mixed-case true, a zero id with a blank
\* date, a row of two cells, an empty completed cell, and a row of five cells
SheetRows ==
  { << <<"1">>, <<"L","e","a","r","n"," ","A","P","I","s">>, <<"F","A","L","S","E">>,
       <<"2","0","2","4","-","0","7","-","1","3">> >>,
    << <<"2">>, <<" ","b"," ">>, <<"T","r","u","e">>, <<"d">> >>,
    << <<"0">>, <<"a">>, <<"n","o">>, <<>> >>,
    << <<"3">>, <<"a">> >>,
    << <<"4">>, <<"a">>, <<>>, <<"d">> >>,
    << <<"5">>, <<>>, <<"T","R","U","E">>, <<"d">>, <<"e">> >> }

\* the data rows the model puts under a header row
RowsUnder(header) == IF header = SheetHeader THEN SheetRows ELSE DataRows

InitRows ==
  /\ apiKey = TRUE
  /\ sheet = <<SheetHeader>>
  /\ HandlerInit
  /\ matrix \in {<<>>} \cup {<<h>> : h \in HeaderRows \cup {SheetHeader}}
  /\ records = <<>>
  /\ stage = "build"
  /\ PureInit

AddRow(row) ==
  /\ stage = "build"
  /\ Len(matrix) >= 1
  /\ Len(matrix) < 1 + MaxDataRows
  /\ row \in RowsUnder(matrix[1])
  /\ matrix' = Append(matrix, row)
  /\ UNCHANGED <<records, stage, csv, tokens, cleaned, served, expressRecords>>
  /\ UNCHANGED hvars

Convert ==
  /\ stage = "build"
  /\ records' = rowsToJSON(matrix)
  /\ stage' = "done"
  /\ UNCHANGED <<matrix, csv, tokens, cleaned, served, expressRecords>>
  /\ UNCHANGED hvars

NextRows ==
  \/ \E row \in DataRows \cup SheetRows : AddRow(row)
  \/ Convert

SpecRows == InitRows /\ [][NextRows]_vars

----------------------------------------------------------------------------
(* The tokenizer and the sanitizer applied to the CSV export of bounded    *)
(* tables.  The table is built row by row, cell by cell, character by      *)
(* character, and then downloaded.                                         *)

\* rows, cells and characters per table, together
MaxCsvSize == 8

\* the characters of the cells: a letter, a blank and a double quote
CellChars == {"a", " ", "\""}

RECURSIVE TotalLen(_)
TotalLen(seqs) ==
  IF seqs = <<>> THEN 0 ELSE Len(Head(seqs)) + TotalLen(Tail(seqs))

\* the rows, cells and characters of a table, together
TableSize(table) ==
  Len(table) + TotalLen(table)
    + TotalLen([i \in 1..Len(table) |-> [j \in 1..TotalLen(table[i]) |-> 0]])

InitCsv ==
  /\ apiKey = TRUE
  /\ sheet = <<SheetHeader>>
  /\ HandlerInit
  /\ matrix = <<>>
  /\ records = <<>>
  /\ stage = "build"
  /\ PureInit

\* a new row, without cells
NewLine ==
  /\ stage = "build"
  /\ TableSize(matrix) < MaxCsvSize
  /\ matrix' = Append(matrix, <<>>)
  /\ UNCHANGED <<records, stage, csv, tokens, cleaned, served, expressRecords>>
  /\ UNCHANGED hvars

\* a new empty cell at the end of the last row
NewCell ==
  /\ stage = "build"
  /\ TableSize(matrix) < MaxCsvSize
  /\ Len(matrix) >= 1
  /\ matrix' = [matrix EXCEPT ![Len(matrix)] = Append(@, <<>>)]
  /\ UNCHANGED <<records, stage, csv, tokens, cleaned, served, expressRecords>>
  /\ UNCHANGED hvars

\* a character at the end of the last cell
TypeChar(c) ==
  /\ stage = "build"
  /\ TableSize(matrix) < MaxCsvSize
  /\ Len(matrix) >= 1
  /\ Len(matrix[Len(matrix)]) >= 1
  /\ matrix' = [matrix EXCEPT ![Len(matrix)][Len(matrix[Len(matrix)])] = Append(@, c)]
  /\ UNCHANGED <<records, stage, csv, tokens, cleaned, served, expressRecords>>
  /\ UNCHANGED hvars

\* fetchSheetData downloads the export of the table: the text is tokenized,
\* the blank rows are dropped, and rowsToJSON maps what is left
Download ==
  /\ stage = "build"
  /\ csv' = CsvExport(matrix)
  /\ tokens' = Tokenize(csv')
  /\ cleaned' = fetchSheetData([kind |-> "ok", live |-> TRUE, status |-> 200, text |-> csv'])
  /\ records' = rowsToJSON(cleaned')
  /\ expressRecords' =
       ExpressRowsToJSON(ExpressFetchSheetData(
         [kind |-> "ok", live |-> TRUE, status |-> 200, text |-> csv']))
  /\ stage' = "done"
  /\ UNCHANGED <<matrix, served>>
  /\ UNCHANGED hvars

\* the download fails (a non-2xx status, a network failure, a body that
\* cannot be read): both servers fall back.  The table plays no part in a
\* failed download, so this is taken for the tables of at most two rows,
\* cells and characters.
DownloadFails(kind) ==
  /\ stage = "build"
  /\ TableSize(matrix) <= 2
  /\ cleaned' = fetchSheetData([kind |-> kind, live |-> FALSE, status |-> 0, text |-> <<>>])
  /\ records' = rowsToJSON(cleaned')
  /\ expressRecords' =
       ExpressRowsToJSON(ExpressFetchSheetData(
         [kind |-> kind, live |-> FALSE, status |-> 0, text |-> <<>>]))
  /\ stage' = kind
  /\ UNCHANGED <<matrix, csv, tokens, served>>
  /\ UNCHANGED hvars

NextCsv ==
  \/ NewLine
  \/ NewCell
  \/ \E c \in CellChars : TypeChar(c)
  \/ Download
  \/ \E kind \in {"status", "network", "decode"} : DownloadFails(kind)

SpecCsv == InitCsv /\ [][NextCsv]_vars

----------------------------------------------------------------------------
(* The read-only deployments: the health and index serverless handlers and *)
(* the write routes of the Express server.  They keep no state; the model  *)
(* records the requests they answered.                                     *)

\* requests answered per behaviour
MaxServed == 2

AllMethods == {"OPTIONS", "GET", "POST", "PUT", "DELETE"}

\* the methods the Express server has a write route for
WriteRoutes == {"POST", "PUT", "DELETE"}

\* the health handler: OPTIONS, GET, and every other method
HealthResponse(m) ==
  IF m = "OPTIONS" THEN [status |-> 200]
  ELSE IF m = "GET" THEN
    [status |-> 200, success |-> TRUE,
     message |-> "Google Sheets API Server is running"]
  ELSE [status |-> 405, success |-> FALSE, message |-> "Method not allowed"]

\* the index handler: OPTIONS, and every other method alike
IndexResponse(m) ==
  IF m = "OPTIONS" THEN [status |-> 200]
  ELSE [status |-> 200, success |-> TRUE, message |-> "Welcome to Google Sheets API"]

\* app.post('/api/todos'), app.put('/api/todos/:id'), app.delete('/api/todos/:id')
ExpressWriteResponse(m) ==
  IF m = "POST" THEN
    [status |-> 501, success |-> FALSE,
     message |-> "Creating todos not supported with public sheets (read-only)",
     note |-> "To enable CREATE/UPDATE/DELETE, you need Google Service Account authentication",
     received_data |-> "req.body"]
  ELSE IF m = "PUT" THEN
    [status |-> 501, success |-> FALSE,
     message |-> "Updating todos not supported with public sheets (read-only)",
     note |-> "To enable CREATE/UPDATE/DELETE, you need Google Service Account authentication",
     received_data |-> "req.body"]
  ELSE
    [status |-> 501, success |-> FALSE,
     message |-> "Deleting todos not supported with public sheets (read-only)",
     note |-> "To enable CREATE/UPDATE/DELETE, you need Google Service Account authentication"]

InitReadOnly ==
  /\ apiKey = FALSE
  /\ sheet = <<SheetHeader>>
  /\ HandlerInit
  /\ matrix = <<>>
  /\ records = <<>>
  /\ stage = "off"
  /\ PureInit

Serve(h, m, response) ==
  /\ Len(served) < MaxServed
  /\ served' = Append(served, [handler |-> h, method |-> m, resp |-> response])
  /\ UNCHANGED <<matrix, records, stage, csv, tokens, cleaned, expressRecords>>
  /\ UNCHANGED hvars

Health(m) == Serve("health", m, HealthResponse(m))

Index(m) == Serve("index", m, IndexResponse(m))

ExpressWrite(m) == Serve("express", m, ExpressWriteResponse(m))

NextReadOnly ==
  \/ \E m \in AllMethods : Health(m)
  \/ \E m \in AllMethods : Index(m)
  \/ \E m \in WriteRoutes : ExpressWrite(m)

SpecReadOnly == InitReadOnly /\ [][NextReadOnly]_vars

----------------------------------------------------------------------------
(* The read routes of the Express server: GET /api/todos and               *)
(* GET /api/todos/:id.  Each request fetches the sheet anew.               *)

\* the contents of the spreadsheet behind the Express server: those of
\* InitialSheets, and a table whose ids are not the rows' positions and
\* hold one id twice
ExpressSheets ==
  InitialSheets \cup
  { <<SheetHeader,
      << <<"7">>, <<"a">>, <<"T","R","U","E">>, <<"d">> >>,
      << <<"1">>, <<"b">>, <<"n","o">>, <<"d">> >>,
      << <<"7">>, <<"c">>, <<>>, <<"d">> >> >> }

\* the :id path parameters the model sends
PathIds == { <<"1">>, <<"2","x">>, <<"3">>, <<"7">>, <<"9">>, <<"0">>, <<"a","b","c">> }

\* a === b for the values an id can be
StrictEquals(a, b) == a.t # "nan" /\ a = b

\* a lookup that takes the id for the position of the record
FindTodoByPosition(list, id) ==
  IF id.t = "num" /\ id.n \in 1..Len(list)
    THEN [found |-> TRUE, todo |-> list[id.n]]
    ELSE [found |-> FALSE]

\* todos.find(t => t.id === id)
FindTodo(list, id) ==
  IF \E i \in 1..Len(list) : StrictEquals(Get(list[i], S_id), id)
    THEN [found |-> TRUE,
          todo |-> list[CHOOSE i \in 1..Len(list) :
                          /\ StrictEquals(Get(list[i], S_id), id)
                          /\ \A j \in 1..(i - 1) : ~StrictEquals(Get(list[j], S_id), id)]]
    ELSE [found |-> FALSE]

InitExpress ==
  /\ apiKey = FALSE
  /\ sheet \in ExpressSheets
  /\ HandlerInit
  /\ matrix = <<>>
  /\ records = <<>>
  /\ stage = "off"
  /\ PureInit

\* a GET arrives at one of the two read routes; the route handler runs up
\* to the read fetch it issues
ExpressReceive(r, route, param) ==
  /\ pc[r] = "idle"
  /\ req' = [req EXCEPT ![r] = [method |-> "GET", body |-> NoBody,
                                route |-> route, param |-> param]]
  /\ pc' = [pc EXCEPT ![r] = "express_fetch"]
  /\ reads' = [reads EXCEPT ![r] = @ + 1]
  /\ UNCHANGED <<apiKey, sheet, started, fetched, rows, todos, nextId, newTodo,
                 newRow, resp, appends, responses, answer, seen, pos, outage>>
  /\ UNCHANGED pvars

\* app.get('/api/todos'): the read fetch is answered
ExpressTodos(r, res) ==
  /\ pc[r] = "express_fetch"
  /\ req[r].route = "todos"
  /\ fetched' = [fetched EXCEPT ![r] = res]
  /\ seen' = [seen EXCEPT ![r] = Len(sheet)]
  /\ outage' = (outage \/ res.kind # "ok")
  /\ LET got  == ExpressFetchSheetData(res)
         list == ExpressRowsToJSON(got)
     IN  /\ rows' = [rows EXCEPT ![r] = got]
         /\ todos' = [todos EXCEPT ![r] = list]
         /\ Send(r, [status |-> 200, success |-> TRUE,
                     data |-> list, count |-> Len(list),
                     source |-> "Real Google Sheets", sheet_id |-> SHEET_ID,
                     last_updated |-> Now])
  /\ UNCHANGED <<apiKey, sheet, started, req, nextId, newTodo, newRow, reads,
                 appends, answer, pos>>
  /\ UNCHANGED pvars

\* app.get('/api/todos/:id'): the read fetch is answered
ExpressTodo(r, res) ==
  /\ pc[r] = "express_fetch"
  /\ req[r].route = "todo"
  /\ fetched' = [fetched EXCEPT ![r] = res]
  /\ seen' = [seen EXCEPT ![r] = Len(sheet)]
  /\ outage' = (outage \/ res.kind # "ok")
  /\ LET id   == parseInt(req[r].param)
         got  == ExpressFetchSheetData(res)
         list == ExpressRowsToJSON(got)
         hit  == FindTodo(list, id)
     IN  /\ rows' = [rows EXCEPT ![r] = got]
         /\ todos' = [todos EXCEPT ![r] = list]
         /\ IF ~hit.found
              THEN Send(r, [status |-> 404, success |-> FALSE,
                            message |-> <<"Todo with id ", id, " not found">>])
              ELSE Send(r, [status |-> 200, success |-> TRUE,
                            data |-> hit.todo, source |-> "Real Google Sheets"])
  /\ UNCHANGED <<apiKey, sheet, started, req, nextId, newTodo, newRow, reads,
                 appends, answer, pos>>
  /\ UNCHANGED pvars

NextExpress ==
  \/ ExpressReceive("r1", "todos", <<>>)
  \/ \E param \in PathIds : ExpressReceive("r1", "todo", param)
  \/ \E res \in ReadAnswers(sheet) : ExpressTodos("r1", res)
  \/ \E res \in ReadAnswers(sheet) : ExpressTodo("r1", res)
  \/ Discard("r1")

SpecExpress == InitExpress /\ [][NextExpress]_vars

----------------------------------------------------------------------------
(* Properties of the handler, checked under Spec *)

ReadFailed(r) == fetched[r].kind \in {"status", "network", "decode"}

\* C1: whatever the CSV fetch came to (a 2xx answer with any body, a non-2xx
\* status, a network failure, a body that cannot be decoded), a GET is
\* answered with status 200 and success: true.
C1_ReadAlways200 ==
  \A r \in Requests :
    (pc[r] = "done" /\ req[r].method = "GET")
      => (resp[r].status = 200 /\ resp[r].success = TRUE)

C1_Witness ==
  \E r \in Requests :
    /\ pc[r] = "done" /\ req[r].method = "GET"
    /\ fetched[r].kind = "decode"
    /\ resp[r].status = 200

\* C2: when the CSV fetch fails, fetchSheetData returns the fixed fallback
\* matrix (the header id,task,completed,created_date and 3 rows), and
\* rowsToJSON of it is 3 records with the integer ids 1, 2, 3 and the boolean
\* completed = false.
C2_FallbackExact ==
  \A r \in Requests :
    ReadFailed(r) =>
      /\ rows[r] = FallbackRows
      /\ Len(rows[r]) = 4
      /\ rows[r][1] = <<S_id, S_task, S_completed, S_created_date>>
      /\ Len(todos[r]) = 3
      /\ \A i \in 1..3 :
           /\ todos[r][i][S_id] = JNum(i)
           /\ todos[r][i][S_completed] = JBool(FALSE)

C2_Witness ==
  \E r \in Requests :
    /\ fetched[r].kind = "status"
    /\ Len(todos[r]) = 3
    /\ todos[r][3][S_id] = JNum(3)

\* C3: a POST handled while no write credential is configured is answered
\* with status 500, success: false and a message and nothing else, whatever
\* its body, and issues neither the read fetch nor the append request.
C3_NoCredentialNoNetwork ==
  \A r \in Requests :
    (~apiKey /\ req[r].method = "POST") =>
      /\ pc[r] = "done"
      /\ resp[r].status = 500
      /\ resp[r].success = FALSE
      /\ DOMAIN resp[r] = {"status", "success", "message"}
      /\ reads[r] = 0
      /\ appends[r] = 0

C3_Witness ==
  \E r \in Requests :
    /\ ~apiKey /\ req[r].method = "POST"
    /\ req[r].body.present /\ req[r].body.task = JStr(<<" ", "b", " ">>)
    /\ resp[r].status = 500

\* a body that is absent, or whose task is missing, empty or longer than
\* 100 characters
InvalidBody(b) ==
  \/ ~b.present
  \/ b.task = Undef
  \/ b.task = JStr(<<>>)
  \/ (b.task.t = "str" /\ Len(b.task.s) > 100)

\* C4: with a write credential configured, a POST whose body is absent or
\* whose task is missing, empty or longer than 100 characters is answered
\* with status 400 and {success: false, message}, and issues no read fetch
\* and no append request.
C4_InvalidBody400 ==
  \A r \in Requests :
    (apiKey /\ req[r].method = "POST" /\ InvalidBody(req[r].body)) =>
      /\ pc[r] = "done"
      /\ resp[r].status = 400
      /\ resp[r].success = FALSE
      /\ DOMAIN resp[r] = {"status", "success", "message"}
      /\ reads[r] = 0
      /\ appends[r] = 0

C4_Witness ==
  \E r \in Requests :
    /\ apiKey /\ req[r].method = "POST"
    /\ req[r].body.present /\ req[r].body.task.t = "str"
    /\ Len(req[r].body.task.s) = 101
    /\ resp[r].status = 400

\* C5: every row the append path submits carries a task that is a non-empty
\* string of at most 100 characters.
C5_SubmittedTaskNonEmpty ==
  \A r \in Requests :
    appends[r] > 0 =>
      /\ newRow[r][2].t = "str"
      /\ newRow[r][2].s # <<>>
      /\ Len(newRow[r][2].s) <= 100

\* C7: the next identifier is 1 when the fetched dataset yields no records,
\* and otherwise an integer that is 1 + the id of one of its records and
\* greater than the id of every record.
C7_NextIdIsMaxPlusOne ==
  \A r \in Requests :
    appends[r] > 0 =>
      IF Len(todos[r]) = 0 THEN nextId[r] = JNum(1)
      ELSE /\ nextId[r].t = "num"
           /\ \E i \in 1..Len(todos[r]) :
                Get(todos[r][i], S_id) = JNum(nextId[r].n - 1)
           /\ \A i \in 1..Len(todos[r]) :
                Get(todos[r][i], S_id).t = "num"
                  => Get(todos[r][i], S_id).n < nextId[r].n

\* C8: when the append endpoint answers with a non-success status, the POST
\* is answered with status 500, success: false and an error that carries the
\* upstream status and body; no row was added, no 201 is sent, and the
\* append request was issued exactly once.
C8_WriteFailurePropagates ==
  \A r \in Requests :
    answer[r].kind = "status" =>
      /\ pc[r] = "done"
      /\ resp[r].status = 500
      /\ resp[r].success = FALSE
      /\ resp[r].error.name = "Sheets API error"
      /\ resp[r].error.status = answer[r].status
      /\ resp[r].error.text = answer[r].text
      /\ appends[r] = 1
      /\ responses[r] = 1
      /\ pos[r] = 0

C8_Witness ==
  \E r \in Requests :
    /\ answer[r].kind = "status" /\ answer[r].status = 403
    /\ resp[r].status = 500
    /\ appends[r] = 1

\* C12: a matrix with fewer than two rows (no row at all, or a header row
\* alone) converts to no records; so a CSV text that is a header line
\* followed only by blank lines yields no records, and its read response
\* has count 0.
C12_FewRowsNoRecords ==
  \A r \in Requests :
    (fetched[r].kind # "none" /\ Len(rows[r]) < 2) =>
      /\ todos[r] = <<>>
      /\ req[r].method = "GET" =>
           /\ pc[r] = "done"
           /\ resp[r].status = 200
           /\ resp[r].data = <<>>
           /\ resp[r].count = 0

C12_Witness ==
  \E r \in Requests :
    /\ req[r].method = "GET" /\ pc[r] = "done"
    /\ fetched[r].kind = "ok" /\ fetched[r].text = HeaderThenBlankLines
    /\ Len(Tokenize(fetched[r].text)) = 4
    /\ Len(rows[r]) = 1
    /\ resp[r].count = 0

\* C19: in every successful read response count is the number of records
\* in data, and data is rowsToJSON of the matrix that request's
\* fetchSheetData returned, live or fallback; the envelope has success:
\* true, source, sheet_id equal to the configured sheet id, and last_updated.
C19_ReadEnvelope ==
  \A r \in Requests :
    (pc[r] = "done" /\ req[r].method = "GET" /\ resp[r].status = 200) =>
      /\ DOMAIN resp[r] = {"status", "success", "data", "count", "source",
                           "sheet_id", "last_updated"}
      /\ resp[r].success = TRUE
      /\ resp[r].count = Len(resp[r].data)
      /\ rows[r] = fetchSheetData(fetched[r])
      /\ resp[r].data = rowsToJSON(rows[r])
      /\ resp[r].sheet_id = SHEET_ID
      /\ resp[r].source = "Real Google Sheets"
      /\ resp[r].last_updated = Now

C19_Witness ==
  \E r \in Requests :
    /\ pc[r] = "done" /\ req[r].method = "GET" /\ resp[r].status = 200
    /\ fetched[r].live
    /\ Len(sheet) = 4
    /\ resp[r].count = 3
    /\ resp[r].data[3][S_task] = JStr(<<"b">>)

\* C20: a successful append submits one row, [id, task, completed,
\* created_date] in this order, once, and is answered with status 201 and
\* success: true; the id, task, completed and created_date of the returned
\* record are the values of the submitted row; completed is false and
\* created_date the current date when the request gives none.
C20_AppendOneRow ==
  \A r \in Requests :
    answer[r].kind = "ok" =>
      /\ pc[r] = "done"
      /\ resp[r].status = 201
      /\ resp[r].success = TRUE
      /\ appends[r] = 1
      /\ Len(sheet) = seen[r] + 1
      /\ pos[r] = Len(sheet)
      /\ sheet[pos[r]] = RowCells(newRow[r])
      /\ Len(newRow[r]) = 4
      /\ newRow[r][1] = nextId[r]
      /\ newRow[r][2] = JStr(trim(req[r].body.task.s))
      /\ newRow[r][3] = (IF req[r].body.completed = Undef
                           THEN JBool(FALSE) ELSE req[r].body.completed)
      /\ newRow[r][4] = (IF req[r].body.created_date = Undef
                           THEN JStr(Today) ELSE req[r].body.created_date)
      /\ resp[r].data.id = newRow[r][1]
      /\ resp[r].data.task = newRow[r][2]
      /\ resp[r].data.completed = newRow[r][3]
      /\ resp[r].data.created_date = newRow[r][4]

C20_Witness ==
  \E r \in Requests :
    /\ answer[r].kind = "ok"
    /\ req[r].body.completed = Undef /\ req[r].body.created_date = Undef
    /\ resp[r].status = 201
    /\ resp[r].data.id = JNum(3)
    /\ resp[r].data.completed = JBool(FALSE)
    /\ resp[r].data.created_date = JStr(Today)
    /\ sheet[pos[r]][1] = <<"3">>
    /\ sheet[pos[r]][3] = <<"F","A","L","S","E">>
    /\ sheet[pos[r]][4] = Today

\* C23: fetchSheetData issues one read request per invocation: after a
\* failure (a non-2xx answer or a thrown error) it returns the fallback at
\* once, and after a success its rows, and no second read request is issued.
C23_OneReadRequest ==
  \A r \in Requests :
    /\ reads[r] <= 1
    /\ fetched[r].kind # "none" =>
         /\ reads[r] = 1
         /\ pc[r] \notin {"get_fetch", "post_fetch"}
         /\ ReadFailed(r) => rows[r] = FallbackRows
         /\ fetched[r].kind = "ok" => rows[r] = CleanRows(Tokenize(fetched[r].text))

C23_Witness ==
  \E r \in Requests :
    /\ req[r].method = "GET" /\ pc[r] = "done"
    /\ fetched[r].kind = "network"
    /\ reads[r] = 1
    /\ rows[r] = FallbackRows

\* C24: the data of a read response depends on the outcome of that
\* request's own fetch alone: whatever reads failed and whatever appends
\* were made before, it is rowsToJSON of what fetchSheetData makes of that
\* outcome, and the rows of the fetched text when the fetch succeeded.
C24_NoCrossRequestState ==
  \A r \in Requests :
    (pc[r] = "done" /\ req[r].method = "GET") =>
      /\ resp[r].data = rowsToJSON(fetchSheetData(fetched[r]))
      /\ fetched[r].kind = "ok" =>
           resp[r].data = rowsToJSON(CleanRows(Tokenize(fetched[r].text)))

C24_Witness ==
  \E r \in Requests :
    /\ pc[r] = "done" /\ req[r].method = "GET"
    /\ outage /\ started > 0
    /\ fetched[r].live
    /\ Len(sheet) = 2
    /\ resp[r].count = 1
    /\ resp[r].data # rowsToJSON(FallbackRows)
    /\ resp[r].data[1][S_id] = JNum(4)

\* C30: a read response built from the fallback has the envelope of one
\* built from live data: apart from data and count, every field (status,
\* success, source 'Real Google Sheets', the configured sheet_id,
\* last_updated) is the same whether the fetch failed or not.
C30_FallbackSameEnvelope ==
  \A r \in Requests :
    (pc[r] = "done" /\ req[r].method = "GET") =>
      [f \in DOMAIN resp[r] \ {"data", "count"} |-> resp[r][f]] =
        [status |-> 200, success |-> TRUE, source |-> "Real Google Sheets",
         sheet_id |-> SHEET_ID, last_updated |-> Now]

C30_Witness ==
  \E r \in Requests :
    /\ pc[r] = "done" /\ req[r].method = "GET"
    /\ fetched[r].kind = "status"
    /\ Len(sheet) = 3
    /\ resp[r].data = rowsToJSON(FallbackRows)
    /\ resp[r].source = "Real Google Sheets"
    /\ resp[r].sheet_id = SHEET_ID

\* the execution raised an exception: a body whose task passes the checks
\* but has no trim method, an append request that was rejected or answered
\* with a non-2xx status, or a 2xx answer whose body is no JSON
Raised(r) ==
  \/ /\ req[r].method = "POST" /\ apiKey
     /\ req[r].body.present /\ Truthy(req[r].body.task)
     /\ req[r].body.task.t # "str"
  \/ answer[r].kind \in {"status", "network", "badjson"}

\* C26: every exception raised while the handler processes a GET or a POST,
\* one raised while the body is validated or while the append endpoint's
\* 2xx answer is decoded included, is answered with status 500 and
\* {success: false, message, error: the exception's text}, once.
C26_ExceptionsCaught ==
  \A r \in Requests :
    Raised(r) =>
      /\ pc[r] = "done"
      /\ responses[r] = 1
      /\ resp[r].status = 500
      /\ resp[r].success = FALSE
      /\ DOMAIN resp[r] = {"status", "success", "message", "error"}
      /\ resp[r].message = "Internal server error"
      /\ resp[r].error.name =
           (CASE answer[r].kind = "status"  -> "Sheets API error"
              [] answer[r].kind = "network" -> "FetchError"
              [] answer[r].kind = "badjson" -> "SyntaxError"
              [] OTHER                      -> "TypeError")

C26_Witness ==
  \E r \in Requests :
    /\ answer[r].kind = "badjson"
    /\ pos[r] > 0
    /\ resp[r].status = 500
    /\ resp[r].error = [name |-> "SyntaxError"]

\* C27: the credential check comes before the validation of the body: a
\* POST received while no write credential is configured is answered with
\* the 500 configuration error whatever its body, an absent body, a missing
\* task and a task over 100 characters included, and never with 400.
C27_CredentialBeforeValidation ==
  \A r \in Requests :
    (~apiKey /\ req[r].method = "POST" /\ pc[r] = "done") =>
      /\ resp[r].status # 400
      /\ resp[r] = [status |-> 500, success |-> FALSE,
                    message |-> "Google API key not configured. Please set GOOGLE_API_KEY environment variable."]

C27_Witness ==
  \E r \in Requests :
    /\ ~apiKey /\ req[r].method = "POST" /\ pc[r] = "done"
    /\ ~req[r].body.present
    /\ resp[r].status = 500

\* C28: when the read fetch inside an append fails, the append goes on:
\* the next identifier is computed from the fallback dataset, so it is 4,
\* the append request is issued, and the row is written with id 4 whatever
\* ids the sheet holds.
C28_AppendDuringOutage ==
  \A r \in Requests :
    (req[r].method = "POST" /\ ReadFailed(r)) =>
      /\ pc[r] \in {"post_append", "done"}
      /\ appends[r] = 1
      /\ nextId[r] = JNum(4)
      /\ newRow[r][1] = JNum(4)
      /\ answer[r].kind = "ok" =>
           /\ resp[r].status = 201
           /\ resp[r].data.id = JNum(4)
           /\ sheet[pos[r]][1] = <<"4">>

C28_Witness ==
  \E r \in Requests :
    /\ req[r].method = "POST" /\ fetched[r].kind = "network"
    /\ answer[r].kind = "ok"
    /\ Len(sheet) = 4
    /\ sheet[3][1] = <<"2">>
    /\ sheet[4][1] = <<"4">>
    /\ resp[r].status = 201

\* C29: every request receives exactly one response on every path: an
\* execution has sent no response while it runs and one when it is over,
\* never two; and an execution waiting for an outbound call is over in the
\* end, provided every outbound call returns or fails.
C29_ExactlyOneResponse ==
  /\ [](\A r \in Requests :
          /\ responses[r] <= 1
          /\ pc[r] = "done" <=> responses[r] = 1
          /\ pc[r] = "done" => resp[r].status \in {200, 201, 400, 405, 500})
  /\ \A r \in Requests :
       (pc[r] \in Awaiting)
         ~> (pc[r] = "done" /\ responses[r] = 1)

C29_Witness ==
  \E r \in Requests :
    /\ pc[r] = "done" /\ req[r].method = "POST"
    /\ answer[r].kind = "network" /\ ~answer[r].applied
    /\ reads[r] = 1 /\ appends[r] = 1
    /\ responses[r] = 1

----------------------------------------------------------------------------
(* Concurrent appends, checked under SpecConcurrent *)

\* both appends were applied, and both read fetches downloaded the sheet
\* before either row was added to it
Interleaved(p, q) ==
  /\ p # q
  /\ pos[p] > 0 /\ pos[q] > 0
  /\ fetched[p].live /\ fetched[q].live
  /\ seen[p] = seen[q]

\* C6: two appends whose read fetches both precede either one's append
\* compute the same next identifier and both add a row with it: the sheet
\* holds two rows with one id.
C6_InterleavedAppendsCollide ==
  \A p, q \in Requests :
    Interleaved(p, q) =>
      /\ nextId[p] = nextId[q]
      /\ sheet[pos[p]][1] = sheet[pos[q]][1]

C6_Witness ==
  \E p, q \in Requests :
    /\ Interleaved(p, q)
    /\ pos[p] # pos[q]
    /\ seen[p] < pos[p] /\ seen[p] < pos[q]
    /\ sheet[pos[p]][1] = sheet[pos[q]][1]
    /\ sheet[pos[p]][1] # <<>>
    /\ resp[p].status = 201 /\ resp[q].status = 201

\* C25: within one POST the two outbound calls are sequential: the append
\* request is issued only after that execution's read fetch was answered,
\* the id of the submitted row is the one computed from that read's result,
\* and at most one read fetch and one append request are issued.
C25_ReadThenAppend ==
  \A r \in Requests :
    /\ reads[r] <= 1
    /\ appends[r] <= 1
    /\ pc[r] = "post_fetch" => (appends[r] = 0 /\ fetched[r].kind = "none")
    /\ appends[r] > 0 =>
         /\ reads[r] = 1
         /\ fetched[r].kind # "none"
         /\ nextId[r] = NextId(rowsToJSON(fetchSheetData(fetched[r])))
         /\ newRow[r][1] = nextId[r]
    /\ answer[r].kind # "none" => appends[r] = 1

C25_Witness ==
  \E p, q \in Requests :
    /\ p # q
    /\ answer[p].kind = "ok" /\ answer[q].kind = "ok"
    /\ fetched[p].live /\ fetched[q].live
    /\ seen[q] = pos[p]
    /\ newRow[q][1] = JNum(newRow[p][1].n + 1)
    /\ sheet[pos[q]][1] = IntToString(nextId[q].n)

----------------------------------------------------------------------------
(* Properties of rowsToJSON, checked under SpecRows *)

HasId(header) == \E i \in 1..Len(header) : trim(toLowerCase(header[i])) = S_id

IdColumn(header) ==
  CHOOSE i \in 1..Len(header) : trim(toLowerCase(header[i])) = S_id

\* the id cell of a data row, empty when the row is too short to have one
IdCell(header, row) ==
  IF IdColumn(header) <= Len(row) THEN row[IdColumn(header)] ELSE <<>>

Converted == stage = "done" /\ Len(matrix) >= 2 /\ HasId(matrix[1])

\* C9: when the header contains id, every record has an integer id, and a
\* data row whose id cell is empty, absent or non-numeric gets its 1-based
\* position among the data rows.
C9_IdIntegerOrPosition ==
  Converted =>
    \A k \in 1..Len(records) :
      /\ records[k][S_id].t = "num"
      /\ parseInt(IdCell(matrix[1], matrix[k + 1])) = NaN
           => records[k][S_id] = JNum(k)

\* C10: a data row whose id cell parses as an integer n, zero and negative
\* values included, gets the id n.
C10_ParsedIdKept ==
  Converted =>
    \A k \in 1..Len(records) :
      parseInt(IdCell(matrix[1], matrix[k + 1])).t = "num"
        => records[k][S_id] = parseInt(IdCell(matrix[1], matrix[k + 1]))

\* the field names rowsToJSON makes of a header row
Names(header) == {trim(toLowerCase(header[i])) : i \in 1..Len(header)}

\* the matrix with every data row cut to the length of the header row
Truncated(m) ==
  [k \in 1..Len(m) |->
     IF k = 1 \/ Len(m[k]) <= Len(m[1]) THEN m[k] ELSE SubSeq(m[k], 1, Len(m[1]))]

\* C14: rowsToJSON zips header names to cells by position: there is one
\* record per data row, each with exactly the header's field names; a field
\* whose column lies beyond the end of a short row is the empty string; and
\* the cells beyond the header's length change nothing in the records.
C14_PositionalZip ==
  (stage = "done" /\ Len(matrix) >= 2) =>
    /\ Len(records) = Len(matrix) - 1
    /\ \A k \in 1..Len(records) :
         /\ DOMAIN records[k] = Names(matrix[1])
         /\ \A i \in 1..Len(matrix[1]) :
              i > Len(matrix[k + 1])
                => records[k][trim(toLowerCase(matrix[1][i]))] = JStr(<<>>)
    /\ records = rowsToJSON(Truncated(matrix))

C14_Witness ==
  /\ stage = "done" /\ Len(matrix) = 3
  /\ matrix[1] = SheetHeader
  /\ Len(matrix[2]) = 2 /\ Len(matrix[3]) = 5
  /\ records[1][S_created_date] = JStr(<<>>)
  /\ records[1][S_completed] = JStr(<<>>)
  /\ DOMAIN records[2] = {S_id, S_task, S_completed, S_created_date}
  /\ \A name \in DOMAIN records[2] : records[2][name] # JStr(matrix[3][5])

HasCompleted(header) ==
  \E i \in 1..Len(header) : trim(toLowerCase(header[i])) = S_completed

CompletedColumn(header) ==
  CHOOSE i \in 1..Len(header) : trim(toLowerCase(header[i])) = S_completed

\* the completed cell of a data row, empty when the row is too short
CompletedCell(header, row) ==
  IF CompletedColumn(header) <= Len(row) THEN row[CompletedColumn(header)] ELSE <<>>

\* C11: when the header contains completed, every record's completed is a
\* boolean: true exactly when the cell is "true" in any letter case, false
\* for every other cell, the empty and the absent cell included.
C11_CompletedBoolean ==
  (stage = "done" /\ Len(matrix) >= 2 /\ HasCompleted(matrix[1])) =>
    \A k \in 1..Len(records) :
      records[k][S_completed] =
        JBool(toLowerCase(CompletedCell(matrix[1], matrix[k + 1])) = S_true)

----------------------------------------------------------------------------
(* Properties of the tokenizer and the sanitizer, checked under SpecCsv *)

\* a row with a cell that has a character other than white space
NonBlankRow(row) ==
  \E j \in 1..Len(row) : \E c \in 1..Len(row[j]) : row[j][c] \notin WhiteSpace

KeptRows(rws) == {i \in 1..Len(rws) : NonBlankRow(rws[i])}

\* C13: the matrix a successful fetchSheetData returns holds exactly the
\* tokenized rows with at least one cell that is non-empty after trimming,
\* in their original order and with their original cells, ragged or not.
C13_KeptRowsExact ==
  stage = "done" =>
    /\ Len(cleaned) = Cardinality(KeptRows(tokens))
    /\ \A i \in KeptRows(tokens) :
         cleaned[Cardinality({j \in KeptRows(tokens) : j <= i})] = tokens[i]

C13_Witness ==
  /\ stage = "done"
  /\ Len(tokens) = 3
  /\ KeptRows(tokens) = {1, 3}
  /\ Len(tokens[1]) # Len(tokens[3])
  /\ cleaned = <<tokens[1], tokens[3]>>

\* cells joined with ',' and rows with line feeds
Rejoin(m) == Join([i \in 1..Len(m) |-> Join(m[i], ",")], "\n")

\* a matrix whose cells hold no comma, no double quote and no line break
CleanMatrix(m) ==
  \A i \in 1..Len(m) : \A j \in 1..Len(m[i]) : \A c \in 1..Len(m[i][j]) :
    m[i][j][c] \notin {",", "\"", "\n", "\r"}

\* C16 as stated: joining any clean matrix and tokenizing the text gives the
\* matrix back, and tokenizing a text and joining the rows gives the text
\* without its double quotes.
C16_RoundTrip ==
  stage = "done" =>
    /\ CleanMatrix(matrix) =>
         (csv = Rejoin(matrix) /\ tokens = matrix /\ Tokenize(Rejoin(matrix)) = matrix)
    /\ Rejoin(tokens) = StripQuotes(csv)

\* C16, amended: joining a clean matrix that has at least one row, each row
\* with at least one cell, and tokenizing the text gives the matrix back;
\* and tokenizing any text and joining the rows gives the text without its
\* double quotes.
C16_RoundTripNonEmpty ==
  stage = "done" =>
    /\ (CleanMatrix(matrix) /\ Len(matrix) >= 1 /\ \A i \in 1..Len(matrix) : Len(matrix[i]) >= 1) =>
         (csv = Rejoin(matrix) /\ tokens = matrix /\ Tokenize(Rejoin(matrix)) = matrix)
    /\ Rejoin(tokens) = StripQuotes(csv)

C16_Witness ==
  /\ stage = "done"
  /\ CleanMatrix(matrix)
  /\ Len(matrix) = 2 /\ Len(matrix[1]) = 2 /\ Len(matrix[2]) = 1
  /\ matrix[1][1] # <<>> /\ matrix[1][2] = <<>>
  /\ tokens = matrix

\* the cell of a data row in column i, empty when the row is too short
CellAt(row, i) == IF i <= Len(row) THEN row[i] ELSE <<>>

\* C15: under the header id,task,completed,created_date a data row n,t,c,d
\* with a numeric n becomes the record {id: n as an integer, task: t,
\* completed: a boolean, created_date: d}; task and created_date are the
\* cell's string unchanged, the empty string when the cell is absent.
C15_SheetRowRecord ==
  (stage = "done" /\ Len(matrix) >= 2 /\ matrix[1] = SheetHeader) =>
    \A k \in 1..Len(records) :
      parseInt(CellAt(matrix[k + 1], 1)).t = "num" =>
        /\ DOMAIN records[k] = {S_id, S_task, S_completed, S_created_date}
        /\ records[k][S_id] = parseInt(CellAt(matrix[k + 1], 1))
        /\ records[k][S_task] = JStr(CellAt(matrix[k + 1], 2))
        /\ records[k][S_completed].t = "bool"
        /\ records[k][S_created_date] = JStr(CellAt(matrix[k + 1], 4))

\* the last column of the header row whose normalised name is `name`
LastColumn(header, name) ==
  CHOOSE i \in 1..Len(header) :
    /\ trim(toLowerCase(header[i])) = name
    /\ \A j \in (i + 1)..Len(header) : trim(toLowerCase(header[j])) # name

\* C17: the field names are the header cells lower-cased and trimmed; when
\* several header cells give one name, the record's value for it comes from
\* the last of those columns, also when that column's cell is empty or
\* absent in the data row.
C17_LastColumnWins ==
  (stage = "done" /\ Len(matrix) >= 2) =>
    \A k \in 1..Len(records) :
      /\ DOMAIN records[k] = Names(matrix[1])
      /\ \A name \in Names(matrix[1]) \ {S_id, S_completed} :
           records[k][name] = JStr(CellAt(matrix[k + 1], LastColumn(matrix[1], name)))

C17_Witness ==
  /\ stage = "done" /\ Len(matrix) = 4
  /\ matrix[1] = <<<<"T","a","s","k">>, <<"t","a","s","k"," ">>>>
  /\ matrix[2] = << <<"4">>, <<>> >>
  /\ matrix[3] = << <<"a">> >>
  /\ matrix[4] = << <<"1">>, <<"a">> >>
  /\ \A k \in 1..3 : DOMAIN records[k] = {S_task}
  /\ records[1][S_task] = JStr(<<>>)
  /\ records[2][S_task] = JStr(<<>>)
  /\ records[3][S_task] = JStr(<<"a">>)

\* C21: for every upstream outcome (any CSV text, a non-2xx answer, a
\* network failure) the serverless fetchSheetData and rowsToJSON and the
\* Express server's fetchSheetData and rowsToJSON give the same records.
C21_SamePipeline ==
  stage \in {"done", "status", "network", "decode"} => expressRecords = records

C21_Witness ==
  /\ stage = "done"
  /\ Len(tokens) = 3 /\ Len(cleaned) = 2
  /\ Len(records) = 1
  /\ expressRecords = records
  /\ DOMAIN records[1] = {<<"a">>, <<>>}

----------------------------------------------------------------------------
(* Properties of the Express read routes, checked under SpecExpress *)

\* the record at position i of the list has the id
HasIdAt(list, i, id) == id.t = "num" /\ Get(list[i], S_id) = id

\* C22: GET /api/todos/:id answers 200 with a record whose id is the
\* integer parsed from the path parameter when the freshly fetched dataset,
\* live or fallback, has such a record, and 404 with success: false when
\* it has none; a returned record always has that id.
C22_TodoById ==
  \A r \in Requests :
    (pc[r] = "done" /\ req[r].method = "GET" /\ req[r].route = "todo") =>
      LET id == parseInt(req[r].param)
      IN  /\ rows[r] = ExpressFetchSheetData(fetched[r])
          /\ todos[r] = ExpressRowsToJSON(rows[r])
          /\ IF \E i \in 1..Len(todos[r]) : HasIdAt(todos[r], i, id)
               THEN /\ resp[r].status = 200
                    /\ resp[r].success = TRUE
                    /\ \E i \in 1..Len(todos[r]) : resp[r].data = todos[r][i]
                    /\ resp[r].data[S_id] = id
               ELSE /\ resp[r].status = 404
                    /\ resp[r].success = FALSE
                    /\ DOMAIN resp[r] = {"status", "success", "message"}

C22_Witness ==
  \E r \in Requests :
    /\ pc[r] = "done" /\ req[r].route = "todo"
    /\ req[r].param = <<"7">>
    /\ fetched[r].live
    /\ Len(todos[r]) = 3
    /\ resp[r].status = 200
    /\ resp[r].data = todos[r][1]
    /\ resp[r].data[S_task] = JStr(<<"a">>)

----------------------------------------------------------------------------
(* Properties of the read-only handlers, checked under SpecReadOnly *)

\* C18: on the read-only deployments (the health and index handlers and the
\* Express write routes) every request whose method is neither GET nor
\* OPTIONS is answered with status 405 and {success: false, message}.
C18_NonGet405 ==
  \A i \in 1..Len(served) :
    served[i].method \notin {"GET", "OPTIONS"} =>
      /\ served[i].resp.status = 405
      /\ served[i].resp.success = FALSE
      /\ DOMAIN served[i].resp = {"status", "success", "message"}

=============================================================================
